---- MODULE Spec2Model ----
(***************************************************************************)
(* Real-time match engine of the quiz backend: game/consumers.py           *)
(* (GameConsumer) with the persistent rows of api/models.py.               *)
(*                                                                         *)
(* One match between player1 (user 1) and player2 (user 2) is modelled.    *)
(* Every websocket connection is one consumer; a consumer dispatches its   *)
(* messages one at a time, so it runs at most one handler at a time, and    *)
(* a handler is suspended only at an await.  The round timers are separate *)
(* asyncio tasks.  Code between two awaits is one atomic step.             *)
(***************************************************************************)
EXTENDS Integers, Sequences, FiniteSets, Bags, TLC

\* ---------------------------------------------------------------- bounds
\* consumers (websocket connections) that may be opened on the match
NConns == 2
\* round timer tasks alive at the same time
MaxTimers == 2
\* rounds of the match (Match.total_rounds; the code's default is 5)
TotalRounds == 2
\* start_round calls beyond the last round of the match
MaxOvershoot == 1
\* answer frames the clients send over the match
MaxAnswers == 2
\* consumers that disconnect
MaxDisc == 2
\* ready frames the clients send
MaxReady == 1
\* largest latency (seconds) drawn for the scoring function
MaxTime == 17
\* largest rating a player enters a finalisation with (besides the default)
MaxStartRating == 40
\* matchmaking connections that may be opened
NMmConns == 4
\* users that open matchmaking connections
NMmUsers == 3
\* Question rows in the database
MaxQuestions == 3
\* cancel frames the matchmaking clients send
MaxCancels == 2
\* matchmaking connections that are closed
MaxMmDisc == 1
\* emoji frames the clients send
MaxEmojis == 6
\* sessions opened again after a close
MaxReopen == 2
\* seconds between the start of a round and the arrival of an answer frame
MaxElapsed == 15

\* ------------------------------------------------------- program constants
DefaultRating == 1000
DefaultLevel == 1
DefaultTime == 15
FastLimit == 3
MediumLimit == 7
FastScore == 100
MediumScore == 70
SlowScore == 40
WinDelta == 20
LossDelta == 15
LevelDivisor == 200
HistoryWinChange == 20
HistoryLossChange == 15
EmojiLimit == 5

\* largest value state['current_round'] is driven to
MaxRound == TotalRounds + MaxOvershoot

Players == {1, 2}
\* self.user.id of an anonymous user (None), and of an authenticated user who
\* is neither player of the match
Anonymous == 0
Stranger == 3
Outsiders == {Anonymous, Stranger}
Conns == 1 .. NConns

\* the user of a consumer (scope['user']): odd consumers are player1's
Owner(c) == IF c % 2 = 1 THEN 1 ELSE 2

Null == "null"
NullTime == 0 - 1
Options == {"A", "B", "C", "D"}
\* the options and latencies the clients of the engine model send
AnswerChoices == {"A", "B"}
TimeChoices == {2}
\* Question.correct_option of the question of round n
CorrectOption(n) == IF n % 2 = 1 THEN "A" ELSE "B"

\* the Question row of round n
QuestionRow(n) ==
    [id |-> n, text |-> "text", options |-> {"A", "B", "C", "D"},
     correct_option |-> CorrectOption(n), explanation |-> "explanation",
     category |-> "category"]

\* the question sent with its correct option
get_round_question_with_answer(n) ==
    [id |-> QuestionRow(n).id, text |-> QuestionRow(n).text,
     options |-> QuestionRow(n).options, category |-> QuestionRow(n).category,
     correct_answer |-> QuestionRow(n).correct_option]

\* get_round_question: the dict it builds from the Question row
get_round_question(n) ==
    [id |-> QuestionRow(n).id, text |-> QuestionRow(n).text,
     options |-> QuestionRow(n).options, category |-> QuestionRow(n).category]

VARIABLES
    game_states,   \* GameConsumer.game_states[match_id]: 0 (absent) or an object id
    heap,          \* the state dicts ever created, by object id
    conn,          \* per consumer: connection status, queued game_start messages
    task,          \* per consumer: position of the handler it is running
    timers,        \* the round_timeout tasks alive (a bag: they have no identity)
    match,         \* the Match row
    rounds,        \* the Round rows, by round_number
    users,         \* the User rows of the two players
    history,       \* the MatchHistory rows, in insertion order
    qlog,          \* the round numbers of the question_start broadcasts, in order
    last,          \* the latest group_send to the room
    nAns,          \* the number of answer frames received
    nReady,        \* the number of ready frames received
    nEnded,        \* per round: how often calculate_round_result has run
    waiting_players, \* MatchmakingConsumer.waiting_players, in insertion order
    mm,            \* per matchmaking connection: position, frames sent to it
    matches,       \* the Match rows create_match has inserted
    in_game,       \* the users whose is_in_game create_match has set
    questions,     \* the number of Question rows
    sc_in,         \* an answer entry and the correct option handed to the scoring
    sc_out,        \* its result
    emoji_box,     \* per consumer: the emoji_received events waiting in its channel
    emoji_shown,   \* per user and sender: the emoji_received frames sent to the user
    nEmoji,        \* the number of emoji frames received
    nReopen,       \* the number of sessions opened again after a close
    other,         \* the game connections of users outside the match, by user
    mm_anon        \* the matchmaking connection of an anonymous user

vars == <<game_states, heap, conn, task, timers, match, rounds, users, history, qlog,
          last, nAns, nReady, nEnded, sc_in, sc_out, waiting_players, mm, matches,
          in_game, questions, emoji_box, emoji_shown, nEmoji, nReopen, other, mm_anon>>

engineVars == <<game_states, heap, conn, task, timers, match, rounds, users, history,
                qlog, last, nAns, nReady, nEnded>>
\* what the room has been sent
sent == <<qlog, last>>
\* the frames the clients have sent
env == <<nAns, nReady>>
\* the persistent rows
db == <<match, rounds, users, history>>
scoreVars == <<sc_in, sc_out>>
\* the matchmaking queue, its consumers and the rows they write
mmVars == <<waiting_players, mm, matches, in_game, questions>>
\* the emoji events and frames
emojiVars == <<emoji_box, emoji_shown, nEmoji, nReopen>>
\* the connections that are turned away
rejectVars == <<other, mm_anon>>
lobbyVars == <<emojiVars, rejectVars>>

\* ---------------------------------------------------------------- helpers
IdleTask == [pc |-> "idle", ref |-> 0, cur |-> 0, qn |-> 0, live |-> FALSE]

NewState == [players_ready |-> {}, current_round |-> 0, round_answers |-> <<>>,
             emojis_sent |-> <<>>]

NewRound == [player1_answer |-> Null, player1_time |-> NullTime, player1_score |-> 0,
             player2_answer |-> Null, player2_time |-> NullTime, player2_score |-> 0]

NewUser == [rating |-> DefaultRating, level |-> DefaultLevel, wins |-> 0,
            losses |-> 0, is_in_game |-> TRUE]

NewMatch == [score1 |-> 0, score2 |-> 0, winner |-> 0, status |-> "in_progress",
             current_round |-> 0]

\* channel_layer.group_send: the message reaches every consumer in the group
GroupMembers == {c \in Conns : conn[c].st = "open"}

\* Round.calculate_score
calculate_score(time_taken, is_correct) ==
    IF ~is_correct THEN 0
    ELSE IF time_taken <= FastLimit THEN FastScore
    ELSE IF time_taken <= MediumLimit THEN MediumScore
    ELSE SlowScore

\* a missing answer read with latency 0
AnswerOf_zero_time(answers, p) ==
    IF p \in DOMAIN answers THEN answers[p]
    ELSE [answer |-> Null, time |-> 0]

\* answers.get(player_id, {}) with .get('answer') and .get('time', 15)
AnswerOf(answers, p) ==
    IF p \in DOMAIN answers THEN answers[p]
    ELSE [answer |-> Null, time |-> DefaultTime]

\* the result entry of one player in calculate_round_result
PlayerResult(data, correct_answer) ==
    LET p_correct == data.answer = correct_answer
    IN [answer |-> data.answer, time |-> data.time,
        score |-> calculate_score(data.time, p_correct), correct |-> p_correct]

\* a loss taken off the rating without the floor at 0
update_rating_unfloored(u, won) ==
    LET r == IF won THEN u.rating + WinDelta ELSE u.rating - LossDelta
    IN [u EXCEPT !.rating = r,
                 !.wins   = IF won THEN @ + 1 ELSE @,
                 !.losses = IF won THEN @ ELSE @ + 1,
                 !.level  = (r \div LevelDivisor) + 1]

\* User.update_rating
update_rating(u, won) ==
    LET r == IF won THEN u.rating + WinDelta
             ELSE IF u.rating - LossDelta > 0 THEN u.rating - LossDelta ELSE 0
    IN [u EXCEPT !.rating = r,
                 !.wins   = IF won THEN @ + 1 ELSE @,
                 !.losses = IF won THEN @ ELSE @ + 1,
                 !.level  = (r \div LevelDivisor) + 1]

\* equal scores decided for player1
Outcome_tie_to_player1(m) == IF m.score1 >= m.score2 THEN 1 ELSE 2

\* finalize_match, lines 552-561: 1 = player1 won, 2 = player2 won, 0 = draw
Outcome(m) == IF m.score1 > m.score2 THEN 1
              ELSE IF m.score2 > m.score1 THEN 2 ELSE 0

\* the two MatchHistory rows finalize_match inserts
HistoryRows(m, o) ==
    << [user |-> 1, opponent |-> 2, user_score |-> m.score1,
        opponent_score |-> m.score2, is_winner |-> (o = 1),
        rating_change |-> IF o = 1 THEN HistoryWinChange
                          ELSE IF o = 2 THEN 0 - HistoryLossChange ELSE 0],
       [user |-> 2, opponent |-> 1, user_score |-> m.score2,
        opponent_score |-> m.score1, is_winner |-> (o = 2),
        rating_change |-> IF o = 1 THEN 0 - HistoryLossChange
                          ELSE IF o = 2 THEN HistoryWinChange ELSE 0] >>

\* channel_layer.group_send of msg to the room
GroupSend(msg) ==
    /\ last' = msg
    /\ qlog' = IF msg.type = "question_start" THEN Append(qlog, msg.round) ELSE qlog

\* A coroutine is run by a consumer, C(c), or is a timer task, T(t), t its
\* present position
C(c) == <<"c", c>>
T(t) == <<"t", t>>
TaskOf(w) == IF w[1] = "c" THEN task[w[2]] ELSE w[2]
IsConn(w) == w[1] = "c"

\* the coroutine w goes on at position new (IdleTask: it has returned), and the
\* timer tasks in the bag spawn are created
Continue(w, new, spawn) ==
    /\ task' = IF IsConn(w) THEN [task EXCEPT ![w[2]] = new] ELSE task
    /\ timers' = LET rest == IF IsConn(w) THEN timers
                             ELSE timers (-) SetToBag({w[2]})
                     kept == IF IsConn(w) \/ new.pc = "idle" THEN rest
                             ELSE rest (+) SetToBag({new})
                 IN kept (+) spawn

Return(w) == Continue(w, IdleTask, EmptyBag)

\* the first segment of start_round (up to the await of get_round_question),
\* run by w as the continuation of its handler
StartRoundCall(w) ==
    IF game_states = 0
    THEN /\ Return(w)
         /\ heap' = heap
    ELSE /\ heap[game_states].current_round < MaxRound
         /\ heap' = [heap EXCEPT ![game_states].current_round = @ + 1]
         /\ Continue(w, [IdleTask EXCEPT !.pc = "sr_q", !.ref = game_states,
                              !.qn = heap[game_states].current_round + 1],
                     EmptyBag)

\* the first segment of end_round (up to the await of calculate_round_result)
EndRoundCall(w) ==
    IF game_states = 0
    THEN Return(w)
    ELSE LET cr == heap[game_states].current_round
         IN Continue(w, [IdleTask EXCEPT !.pc = "er_calc", !.ref = game_states,
                             !.cur = cr,
                             !.live = (cr \in DOMAIN heap[game_states].round_answers)],
                     EmptyBag)

\* ------------------------------------------------------------------ Init
EngineInit ==
    /\ game_states = 0
    /\ heap = <<>>
    /\ conn = [c \in Conns |-> [st |-> "new", gs |-> 0]]
    /\ task = [c \in Conns |-> IdleTask]
    /\ timers = EmptyBag
    /\ match = NewMatch
    /\ rounds = [n \in 1 .. TotalRounds |-> NewRound]
    /\ users = [p \in Players |-> NewUser]
    /\ history = <<>>
    /\ qlog = <<>>
    /\ last = [type |-> "none"]
    /\ nAns = 0
    /\ nReady = 0
    /\ nEnded = [n \in 1 .. TotalRounds |-> 0]

NoScore == [done |-> FALSE, score |-> 0, correct |-> FALSE]

MmConns == 1 .. NMmConns
MmUsers == 1 .. NMmUsers
\* scope['user'] of a matchmaking connection: the connections beyond the
\* first NMmUsers are further connections of the same users
MmOwner(c) == ((c - 1) % NMmUsers) + 1

NewMm == [pc |-> "new", opp |-> 0, oppch |-> 0, got |-> {}, inbox |-> 0, cancels |-> 0]

\* no emoji has been sent, nobody has been turned away
LobbyIdle ==
    /\ emoji_box = [c \in Conns |-> <<>>]
    /\ emoji_shown = [p \in Players |-> [q \in Players |-> 0]]
    /\ nEmoji = 0
    /\ nReopen = 0
    /\ other = [u \in Outsiders |-> "new"]
    /\ mm_anon = "new"

\* no matchmaking connection has been opened
MmIdle ==
    /\ waiting_players = <<>>
    /\ mm = [c \in MmConns |-> NewMm]
    /\ matches = <<>>
    /\ in_game = {}

Init ==
    /\ EngineInit
    /\ MmIdle
    /\ LobbyIdle
    /\ questions = MaxQuestions
    /\ sc_in = [answer |-> Null, time |-> DefaultTime, correct_answer |-> "A"]
    /\ sc_out = NoScore

\* --------------------------------------------------- consumer: connection
\* GameConsumer.connect up to the await of self.send (lines 151-192)
connect(c) ==
    /\ conn[c].st = "new"
    /\ \A d \in Conns : (d < c /\ Owner(d) = Owner(c)) => conn[d].st # "new"
    /\ LET id == IF game_states = 0 THEN Len(heap) + 1 ELSE game_states
           h1 == IF game_states = 0 THEN Append(heap, NewState) ELSE heap
       IN /\ game_states' = id
          /\ heap' = [h1 EXCEPT ![id].players_ready = @ \cup {Owner(c)}]
          /\ task' = [task EXCEPT ![c] =
                         [IdleTask EXCEPT !.pc = "cn_sent", !.ref = id]]
    /\ conn' = [conn EXCEPT ![c].st = "open"]
    /\ UNCHANGED <<timers, db, sent, env, nEnded, scoreVars, mmVars, lobbyVars>>

\* GameConsumer.connect, lines 194-201: game_start to the group
connect_start(c) ==
    /\ task[c].pc = "cn_sent"
    /\ IF Cardinality(heap[task[c].ref].players_ready) >= 2
       THEN /\ GroupSend([type |-> "game_start"])
            /\ conn' = [d \in Conns |->
                          IF d \in GroupMembers
                          THEN [conn[d] EXCEPT !.gs = @ + 1] ELSE conn[d]]
       ELSE UNCHANGED <<sent, conn>>
    /\ Return(C(c))
    /\ UNCHANGED <<game_states, heap, db, env, nEnded, scoreVars, mmVars, lobbyVars>>

\* GameConsumer.disconnect; the events left in the channel of the consumer are
\* lost with it
disconnect(c) ==
    /\ conn[c].st = "open"
    /\ task[c].pc = "idle"
    /\ Cardinality({d \in Conns : conn[d].st = "closed"}) < MaxDisc
    /\ conn' = [conn EXCEPT ![c] = [st |-> "closed", gs |-> 0]]
    /\ IF game_states # 0
       THEN LET left == heap[game_states].players_ready \ {Owner(c)}
            IN /\ heap' = [heap EXCEPT ![game_states].players_ready = left]
               /\ game_states' = IF left = {} THEN 0 ELSE game_states
       ELSE UNCHANGED <<heap, game_states>>
    /\ emoji_box' = [emoji_box EXCEPT ![c] = <<>>]
    /\ UNCHANGED <<task, timers, db, sent, env, nEnded, scoreVars, mmVars, emoji_shown,
                   nEmoji, nReopen, rejectVars>>

\* the client of a closed session opens a new one for the same match: a new
\* consumer with a new channel, which connect then runs in
reopen(c) ==
    /\ conn[c].st = "closed"
    /\ nReopen < MaxReopen
    /\ nReopen' = nReopen + 1
    /\ conn' = [conn EXCEPT ![c].st = "new"]
    /\ UNCHANGED <<game_states, heap, task, timers, db, sent, env, nEnded, scoreVars,
                   mmVars, emoji_box, emoji_shown, nEmoji, rejectVars>>

\* ------------------------------------------------ consumer: inbound frames
\* receive {action: "ready"} -> handle_ready
handle_ready(c) ==
    /\ conn[c].st = "open"
    /\ task[c].pc = "idle"
    /\ game_states # 0
    /\ Cardinality(heap[game_states].players_ready) >= 2
    /\ StartRoundCall(C(c))
    /\ nReady < MaxReady
    /\ nReady' = nReady + 1
    /\ UNCHANGED <<game_states, conn, db, sent, nAns, nEnded, scoreVars, mmVars, lobbyVars>>

\* the answer stored without the duplicate check
StoreAnswer_overwrite(st, user, answer, time_taken) ==
    LET cr == st.current_round
        ra == IF cr \in DOMAIN st.round_answers
              THEN st.round_answers ELSE (cr :> <<>>) @@ st.round_answers
    IN [dup |-> FALSE,
        ra |-> [ra EXCEPT ![cr] =
                  (user :> [answer |-> answer, time |-> time_taken]) @@ ra[cr]]]

\* state['round_answers'] after handle_answer, lines 245-259; dup when the
\* frame is a duplicate
StoreAnswer(st, user, answer, time_taken) ==
    LET cr == st.current_round
        ra == IF cr \in DOMAIN st.round_answers
              THEN st.round_answers ELSE (cr :> <<>>) @@ st.round_answers
    IN IF user \in DOMAIN ra[cr]
       THEN [dup |-> TRUE, ra |-> ra]
       ELSE [dup |-> FALSE,
             ra |-> [ra EXCEPT ![cr] =
                       (user :> [answer |-> answer, time |-> time_taken]) @@ ra[cr]]]

\* receive {action: "answer"} -> handle_answer up to the await of group_send
handle_answer(c, answer, time_taken) ==
    /\ conn[c].st = "open"
    /\ task[c].pc = "idle"
    /\ game_states # 0
    /\ nAns < MaxAnswers
    /\ nAns' = nAns + 1
    /\ LET r == StoreAnswer(heap[game_states], Owner(c), answer, time_taken)
       IN /\ heap' = [heap EXCEPT ![game_states].round_answers = r.ra]
          /\ IF r.dup
             THEN UNCHANGED <<task, timers, sent>>
             ELSE /\ GroupSend([type |-> "answer_submitted", user_id |-> Owner(c)])
                  /\ Continue(C(c), [IdleTask EXCEPT !.pc = "ha_sent",
                                          !.ref = game_states,
                                          !.cur = heap[game_states].current_round],
                              EmptyBag)
    /\ UNCHANGED <<game_states, conn, db, nReady, nEnded, scoreVars, mmVars, lobbyVars>>

\* handle_answer, lines 270-272: both answered -> end_round
handle_answer_check(c) ==
    /\ task[c].pc = "ha_sent"
    /\ IF Cardinality(DOMAIN heap[task[c].ref].round_answers[task[c].cur]) >= 2
       THEN EndRoundCall(C(c))
       ELSE Return(C(c))
    /\ UNCHANGED <<game_states, heap, conn, db, sent, env, nEnded, scoreVars, mmVars, lobbyVars>>

\* the game_start event handler: the frame, asyncio.sleep(3), start_round
game_start(c) ==
    /\ conn[c].st = "open"
    /\ task[c].pc = "idle"
    /\ conn[c].gs > 0
    /\ conn' = [conn EXCEPT ![c].gs = @ - 1]
    /\ StartRoundCall(C(c))
    /\ UNCHANGED <<game_states, db, sent, env, nEnded, scoreVars, mmVars, lobbyVars>>

\* state['emojis_sent'][user]; a user without an entry is given 0 (lines 283-284)
EmojisSentBy(st, user) ==
    IF user \in DOMAIN st.emojis_sent THEN st.emojis_sent[user] ELSE 0

\* receive {action: "emoji"} -> handle_emoji
handle_emoji(c) ==
    /\ conn[c].st = "open"
    /\ task[c].pc = "idle"
    /\ nEmoji < MaxEmojis
    /\ nEmoji' = nEmoji + 1
    /\ IF game_states = 0 \/ EmojisSentBy(heap[game_states], Owner(c)) >= EmojiLimit
       THEN UNCHANGED <<heap, emoji_box, sent>>
       ELSE /\ heap' = [heap EXCEPT ![game_states].emojis_sent =
                           (Owner(c) :> (EmojisSentBy(heap[game_states], Owner(c)) + 1))
                              @@ @]
            /\ emoji_box' = [d \in Conns |->
                                IF d \in GroupMembers
                                THEN Append(emoji_box[d], Owner(c)) ELSE emoji_box[d]]
            /\ GroupSend([type |-> "emoji_received", user_id |-> Owner(c)])
    /\ UNCHANGED <<game_states, conn, task, timers, db, env, nEnded, scoreVars, mmVars,
                   emoji_shown, nReopen, rejectVars>>

\* the condition of the emoji_received handler, with every event passed on
EmojiShown_all(user_id, self_id) == TRUE

\* the condition of the emoji_received handler (line 433)
EmojiShown(user_id, self_id) == user_id # self_id

\* the emoji_received handler of consumer c, on the oldest event in its channel
emoji_received(c) ==
    /\ conn[c].st = "open"
    /\ task[c].pc = "idle"
    /\ emoji_box[c] # <<>>
    /\ emoji_box' = [emoji_box EXCEPT ![c] = Tail(@)]
    /\ emoji_shown' = IF EmojiShown(Head(emoji_box[c]), Owner(c))
                      THEN [emoji_shown EXCEPT ![Owner(c)][Head(emoji_box[c])] = @ + 1]
                      ELSE emoji_shown
    /\ UNCHANGED <<engineVars, scoreVars, mmVars, nEmoji, nReopen, rejectVars>>

\* ------------------------------------------------------------ the engine
\* start_round after get_round_question: update_match_round runs,
\* question_start goes to the group and the round timer is created; the three
\* reads of state['current_round'] (lines 315, 322, 328) are taken together
start_round(w) ==
    /\ TaskOf(w).pc = "sr_q"
    /\ IF TaskOf(w).qn \in 1 .. TotalRounds
       THEN LET cr == heap[TaskOf(w).ref].current_round
            IN /\ BagCardinality(timers) < MaxTimers
               /\ match' = [match EXCEPT !.current_round = cr]
               /\ GroupSend([type |-> "question_start", round |-> cr,
                             question |-> get_round_question(TaskOf(w).qn)])
               /\ Continue(w, IdleTask,
                           SetToBag({[IdleTask EXCEPT !.pc = "tm_sleep",
                                                      !.cur = cr]}))
       ELSE /\ Return(w)
            /\ UNCHANGED <<match, sent>>
    /\ UNCHANGED <<game_states, heap, conn, rounds, users, history, env, nEnded,
                   scoreVars, mmVars, lobbyVars>>

\* round_timeout after asyncio.sleep(15)
round_timeout(w) ==
    /\ TaskOf(w).pc = "tm_sleep"
    /\ IF /\ game_states # 0
          /\ heap[game_states].current_round = TaskOf(w).cur
          /\ TaskOf(w).cur \in DOMAIN heap[game_states].round_answers
          /\ Cardinality(DOMAIN heap[game_states].round_answers[TaskOf(w).cur]) < 2
       THEN EndRoundCall(w)
       ELSE Return(w)
    /\ UNCHANGED <<game_states, heap, conn, db, sent, env, nEnded, scoreVars, mmVars, lobbyVars>>

\* the answers dict end_round handed to calculate_round_result
AnswersOf(t) ==
    IF t.live THEN heap[t.ref].round_answers[t.cur] ELSE <<>>

\* calculate_round_result: the Round row and the Match totals it saves, and the
\* result it returns
calculate_round_result(n, answers, m) ==
    LET p1 == PlayerResult(AnswerOf(answers, 1), CorrectOption(n))
        p2 == PlayerResult(AnswerOf(answers, 2), CorrectOption(n))
    IN [row |-> [player1_answer |-> p1.answer, player1_time |-> p1.time,
                 player1_score |-> p1.score,
                 player2_answer |-> p2.answer, player2_time |-> p2.time,
                 player2_score |-> p2.score],
        score1 |-> m.score1 + p1.score,
        score2 |-> m.score2 + p2.score,
        players |-> (1 :> p1) @@ (2 :> p2)]

\* end_round: calculate_round_result runs and round_end goes to the group
\* (lines 353-366); Round.DoesNotExist ends the coroutine
end_round(w) ==
    /\ TaskOf(w).pc = "er_calc"
    /\ IF TaskOf(w).cur \in 1 .. TotalRounds
       THEN LET n == TaskOf(w).cur
                r == calculate_round_result(n, AnswersOf(TaskOf(w)), match)
            IN /\ rounds' = [rounds EXCEPT ![n] = r.row]
               /\ match' = [match EXCEPT !.score1 = r.score1, !.score2 = r.score2]
               /\ nEnded' = [nEnded EXCEPT ![n] = @ + 1]
               /\ GroupSend([type |-> "round_end", round |-> n,
                             correct_answer |-> CorrectOption(n),
                             players |-> r.players,
                             total_scores |-> <<r.score1, r.score2>>])
               /\ Continue(w, [TaskOf(w) EXCEPT !.pc = "er_sleep"], EmptyBag)
               /\ conn' = conn
       ELSE /\ Return(w)
            /\ conn' = IF IsConn(w)
                       THEN [conn EXCEPT ![w[2]] = [st |-> "crashed", gs |-> 0]]
                       ELSE conn
            /\ UNCHANGED <<rounds, match, nEnded, sent>>
    /\ UNCHANGED <<game_states, heap, users, history, env, scoreVars, mmVars, lobbyVars>>

\* end_round after asyncio.sleep(3): start_round
end_round_next(w) ==
    /\ TaskOf(w).pc = "er_sleep"
    /\ TaskOf(w).cur < TotalRounds
    /\ StartRoundCall(w)
    /\ UNCHANGED <<game_states, conn, db, sent, env, nEnded, scoreVars, mmVars, lobbyVars>>

\* finalize_match: the rows it writes
finalize_match(m, us) ==
    LET o  == Outcome(m)
        u1 == IF o = 0 THEN us[1] ELSE update_rating(us[1], o = 1)
        u2 == IF o = 0 THEN us[2] ELSE update_rating(us[2], o = 2)
    IN [match |-> [m EXCEPT !.winner = o, !.status = "completed"],
        users |-> (1 :> [u1 EXCEPT !.is_in_game = FALSE]) @@
                  (2 :> [u2 EXCEPT !.is_in_game = FALSE]),
        rows  |-> HistoryRows(m, o)]

\* end_round after asyncio.sleep(2): end_match runs finalize_match
end_match(w) ==
    /\ TaskOf(w).pc = "er_sleep"
    /\ TaskOf(w).cur >= TotalRounds
    /\ LET f == finalize_match(match, users)
       IN /\ match' = f.match
          /\ users' = f.users
          /\ history' = history \o f.rows
    /\ Continue(w, [TaskOf(w) EXCEPT !.pc = "em_fin"], EmptyBag)
    /\ UNCHANGED <<game_states, heap, conn, rounds, sent, env, nEnded, scoreVars, mmVars, lobbyVars>>

\* end_match after finalize_match: match_end to the group, game state deleted
end_match_broadcast(w) ==
    /\ TaskOf(w).pc = "em_fin"
    /\ GroupSend([type |-> "match_end", winner_id |-> match.winner])
    /\ game_states' = 0
    /\ Return(w)
    /\ UNCHANGED <<heap, conn, db, env, nEnded, scoreVars, mmVars, lobbyVars>>

\* ------------------------------------------------------------------ Next
Timers == BagToSet(timers)

Next ==
    \/ \E c \in Conns : connect(c)
    \/ \E c \in Conns : connect_start(c)
    \/ \E c \in Conns : disconnect(c)
    \/ \E c \in Conns : handle_ready(c)
    \/ \E c \in Conns, a \in AnswerChoices, t \in TimeChoices : handle_answer(c, a, t)
    \/ \E c \in Conns : handle_answer_check(c)
    \/ \E c \in Conns : game_start(c)
    \/ \E t \in Timers : round_timeout(T(t))
    \/ \E c \in Conns : start_round(C(c))
    \/ \E t \in Timers : start_round(T(t))
    \/ \E c \in Conns : end_round(C(c))
    \/ \E t \in Timers : end_round(T(t))
    \/ \E c \in Conns : end_round_next(C(c))
    \/ \E t \in Timers : end_round_next(T(t))
    \/ \E c \in Conns : end_match(C(c))
    \/ \E t \in Timers : end_match(T(t))
    \/ \E c \in Conns : end_match_broadcast(C(c))
    \/ \E t \in Timers : end_match_broadcast(T(t))

Spec == Init /\ [][Next]_vars

\* ------------------------------------------------- the scoring of an answer
\* calculate_round_result, lines 489-494 and 507-512, on one player's entry:
\* every option or no answer, every latency up to MaxTime, every correct option
ScoreInit ==
    /\ EngineInit
    /\ MmIdle
    /\ LobbyIdle
    /\ questions = MaxQuestions
    /\ sc_in \in [answer : Options \cup {Null}, time : 0 .. MaxTime,
                  correct_answer : Options]
    /\ sc_out = NoScore

score_answer ==
    /\ ~sc_out.done
    /\ LET r == PlayerResult([answer |-> sc_in.answer, time |-> sc_in.time],
                             sc_in.correct_answer)
       IN sc_out' = [done |-> TRUE, score |-> r.score, correct |-> r.correct]
    /\ UNCHANGED <<sc_in, engineVars, mmVars, lobbyVars>>

ScoreSpec == ScoreInit /\ [][score_answer]_vars

\* the engine with the scheduling asyncio guarantees: a coroutine that can
\* go on does go on, a timer that has expired fires; clients need not act
Internal ==
    \/ \E c \in Conns : connect_start(c)
    \/ \E c \in Conns : handle_answer_check(c)
    \/ \E c \in Conns : game_start(c)
    \/ \E t \in Timers : round_timeout(T(t))
    \/ \E c \in Conns : start_round(C(c))
    \/ \E t \in Timers : start_round(T(t))
    \/ \E c \in Conns : end_round(C(c))
    \/ \E t \in Timers : end_round(T(t))
    \/ \E c \in Conns : end_round_next(C(c))
    \/ \E t \in Timers : end_round_next(T(t))
    \/ \E c \in Conns : end_match(C(c))
    \/ \E t \in Timers : end_match(T(t))
    \/ \E c \in Conns : end_match_broadcast(C(c))
    \/ \E t \in Timers : end_match_broadcast(T(t))

FairSpec == Spec /\ WF_vars(Internal)

\* ------------------------------------------------------------ properties
Range(f) == {f[i] : i \in DOMAIN f}

\* the answers stored for the round the engine is in
CurAnswers ==
    IF game_states = 0 THEN <<>>
    ELSE LET st == heap[game_states]
         IN IF st.current_round \in DOMAIN st.round_answers
            THEN st.round_answers[st.current_round] ELSE <<>>

\* the engine is in the same round of the same state dict after the step
SameRound ==
    /\ game_states # 0
    /\ game_states' = game_states
    /\ heap'[game_states].current_round = heap[game_states].current_round

\* every coroutine position: the consumers' and the timer tasks'
Running == {task[c] : c \in Conns} \cup Timers

\* an end_round of the round the engine is in has begun
RoundBeingEnded ==
    /\ game_states # 0
    /\ \E t \in Running :
          /\ t.pc \in {"er_calc", "er_sleep", "em_fin"}
          /\ t.ref = game_states
          /\ t.cur = heap[game_states].current_round

RECURSIVE SumP1(_), SumP2(_)
SumP1(n) == IF n = 0 THEN 0 ELSE rounds[n].player1_score + SumP1(n - 1)
SumP2(n) == IF n = 0 THEN 0 ELSE rounds[n].player2_score + SumP2(n - 1)

\* C1: finalisation runs at most once per match: the two history rows are
\* inserted once and every player's wins + losses grow by at most one
C1_FinalisedOnce ==
    /\ Len(history) <= 2
    /\ \A p \in Players : users[p].wins + users[p].losses <= 1

\* C2: a completed match has exactly two MatchHistory rows, one per player,
\* and a match that is not completed has none
C2_TwoHistoryRows ==
    IF match.status = "completed"
    THEN Len(history) = 2 /\ {history[i].user : i \in DOMAIN history} = Players
    ELSE history = <<>>

\* C3: for a completed match score1 and score2 are the sums of the players'
\* scores over its Round rows
C3_ScoresAreRoundSums ==
    match.status = "completed" =>
        /\ match.score1 = SumP1(TotalRounds)
        /\ match.score2 = SumP2(TotalRounds)

\* C4: the question_start broadcasts carry the round numbers 1, 2, ... in
\* that order, each once, and a match is finalised only after every round
\* has been ended
C4_RoundsInOrder ==
    /\ \A i \in DOMAIN qlog : qlog[i] = i
    /\ match.status = "completed" => \A n \in 1 .. TotalRounds : nEnded[n] >= 1

\* C5: every round that has been started (question_start sent, timer
\* created) is eventually ended
C5_StartedRoundEnds ==
    \A n \in 1 .. TotalRounds : (n \in Range(qlog)) ~> (nEnded[n] >= 1)

\* C6: once the ending of the current round has begun, an answer frame is
\* dropped: the stored answers of the round stay as they are
C6_LateAnswerDropped ==
    [][(RoundBeingEnded /\ SameRound) => CurAnswers' = CurAnswers]_vars

\* C7: a later answer frame of a player who has an answer stored for the
\* current round changes neither the stored answer and latency nor anything
\* else, and nothing is sent to the room
C7_DuplicateIgnored ==
    [][/\ \A p \in DOMAIN CurAnswers : SameRound => CurAnswers'[p] = CurAnswers[p]
       /\ \A c \in Conns, a \in AnswerChoices, t \in TimeChoices :
             (Owner(c) \in DOMAIN CurAnswers /\ handle_answer(c, a, t)) =>
                 UNCHANGED <<heap, task, timers, sent, db>>]_vars

\* two answer frames have been handled and one answer is stored: the other
\* frame was a duplicate
C7_DuplicateHandled ==
    /\ nAns = 2
    /\ Len(heap) = 1
    /\ qlog # <<>>
    /\ heap[1].current_round \in DOMAIN heap[1].round_answers
    /\ \A n \in DOMAIN heap[1].round_answers :
          Cardinality(DOMAIN heap[1].round_answers[n]) = 1
    /\ Cardinality(DOMAIN heap[1].round_answers) = 1

\* C8: an answer scores 100 if correct within 3 s, 70 if correct within 7 s,
\* 40 if correct within 15 s and 0 otherwise (incorrect, or slower than 15 s)
C8_ScoreTable ==
    sc_out.done =>
        sc_out.score =
            IF sc_in.answer # sc_in.correct_answer THEN 0
            ELSE IF sc_in.time <= 3 THEN 100
            ELSE IF sc_in.time <= 7 THEN 70
            ELSE IF sc_in.time <= 15 THEN 40
            ELSE 0

\* the result of a player without an answer, in the Round row and in round_end
NoAnswerResult(t, n) ==
    \A p \in Players :
        p \notin DOMAIN AnswersOf(t) =>
            /\ last'.players[p] =
                   [answer |-> Null, time |-> 15, score |-> 0, correct |-> FALSE]
            /\ IF p = 1
               THEN /\ rounds'[n].player1_answer = Null
                    /\ rounds'[n].player1_time = 15
                    /\ rounds'[n].player1_score = 0
               ELSE /\ rounds'[n].player2_answer = Null
                    /\ rounds'[n].player2_time = 15
                    /\ rounds'[n].player2_score = 0

\* C9: when a round is ended, round_end carries a result for both players, and
\* a player without an answer gets answer null, latency 15 and score 0 in
\* the Round row and in round_end
C9_NoAnswerDefaults ==
    [][\A t \in Running, n \in 1 .. TotalRounds :
          (t.pc = "er_calc" /\ t.cur = n /\ nEnded'[n] = nEnded[n] + 1
             /\ (end_round(T(t)) \/ \E c \in Conns : task[c] = t /\ end_round(C(c))))
          => /\ last'.type = "round_end"
             /\ last'.round = n
             /\ DOMAIN last'.players = Players
             /\ NoAnswerResult(t, n)]_vars

\* a round was ended by its timer with an answer from player1 only
C9_EndedWithOneAnswer ==
    /\ last.type = "round_end"
    /\ nEnded[last.round] >= 1
    /\ last.players[1].answer # Null
    /\ last.players[2] = [answer |-> Null, time |-> 15, score |-> 0, correct |-> FALSE]
    /\ rounds[last.round].player2_answer = Null
    /\ rounds[last.round].player2_time = 15

StartRatings == (0 .. MaxStartRating) \cup {DefaultRating}
FinalScores == {0, SlowScore, FastScore}

\* a User row with the given rating: the row of a new user, or the row
\* update_rating left behind
UserWithRating(r) ==
    IF r = DefaultRating THEN NewUser
    ELSE [NewUser EXCEPT !.rating = r, !.level = (r \div LevelDivisor) + 1]

FinalInit ==
    /\ game_states = 0
    /\ heap = <<>>
    /\ conn = [c \in Conns |-> [st |-> "new", gs |-> 0]]
    /\ task = [c \in Conns |-> IdleTask]
    /\ timers = EmptyBag
    /\ \E s1 \in FinalScores, s2 \in FinalScores :
          match = [NewMatch EXCEPT !.score1 = s1, !.score2 = s2,
                                   !.current_round = TotalRounds]
    /\ rounds = [n \in 1 .. TotalRounds |-> NewRound]
    /\ \E r1 \in StartRatings, r2 \in StartRatings :
          users = (1 :> UserWithRating(r1)) @@ (2 :> UserWithRating(r2))
    /\ history = <<>>
    /\ qlog = <<>>
    /\ last = [type |-> "none"]
    /\ nAns = 0
    /\ nReady = 0
    /\ nEnded = [n \in 1 .. TotalRounds |-> 0]
    /\ sc_in = [answer |-> Null, time |-> DefaultTime, correct_answer |-> "A"]
    /\ sc_out = NoScore
    /\ MmIdle
    /\ LobbyIdle
    /\ questions = MaxQuestions

\* the database writes of finalize_match in program order: match.save (1),
\* player1.update_rating (2), player2.update_rating (3), the is_in_game
\* update (4), the two MatchHistory inserts (5, 6)
FinalWrites == 6

\* the rows after the first k writes of finalize_match; there is no
\* transaction around them, every write is committed as it is made
finalize_writes(m, us, k) ==
    LET o  == Outcome(m)
        u1 == IF k >= 2 /\ o # 0 THEN update_rating(us[1], o = 1) ELSE us[1]
        u2 == IF k >= 3 /\ o # 0 THEN update_rating(us[2], o = 2) ELSE us[2]
        rs == HistoryRows(m, o)
    IN [match |-> IF k >= 1 THEN [m EXCEPT !.winner = o, !.status = "completed"]
                  ELSE m,
        users |-> IF k >= 4
                  THEN (1 :> [u1 EXCEPT !.is_in_game = FALSE]) @@
                       (2 :> [u2 EXCEPT !.is_in_game = FALSE])
                  ELSE (1 :> u1) @@ (2 :> u2),
        rows  |-> IF k >= 6 THEN rs ELSE IF k = 5 THEN <<rs[1]>> ELSE <<>>]

\* finalize_match runs to its end
finalise ==
    /\ match.status = "in_progress"
    /\ LET f == finalize_match(match, users)
       IN /\ match' = f.match
          /\ users' = f.users
          /\ history' = history \o f.rows
    /\ UNCHANGED <<game_states, heap, conn, task, timers, rounds, sent, env, nEnded,
                   scoreVars, mmVars, lobbyVars>>

\* finalize_match raises in its k-th write (a database error): the writes
\* before it stay
finalise_fails(k) ==
    /\ match.status = "in_progress"
    /\ (k \in {2, 3}) => Outcome(match) # 0
    /\ LET f == finalize_writes(match, users, k - 1)
       IN /\ match' = f.match
          /\ users' = f.users
          /\ history' = history \o f.rows
    /\ UNCHANGED <<game_states, heap, conn, task, timers, rounds, sent, env, nEnded,
                   scoreVars, mmVars, lobbyVars>>

FinalNext ==
    \/ finalise
    \/ \E k \in 1 .. FinalWrites : finalise_fails(k)

FinalSpec == FinalInit /\ [][FinalNext]_vars

\* the outcome the scores of m call for
ScoreOutcome(m) ==
    IF m.score1 > m.score2 THEN 1 ELSE IF m.score1 < m.score2 THEN 2 ELSE 0

\* C11: a finalisation gives the winner +20 rating and +1 win, the loser
\* max(0, rating - 15) and +1 loss, changes no rating, wins, losses or level
\* on a draw, and leaves no rating negative
C11_RatingPolicy ==
    [][finalise =>
          /\ \A p \in Players :
                /\ users'[p].rating >= 0
                /\ ScoreOutcome(match) = 0 =>
                      /\ users'[p].rating = users[p].rating
                      /\ users'[p].wins = users[p].wins
                      /\ users'[p].losses = users[p].losses
                      /\ users'[p].level = users[p].level
                /\ ScoreOutcome(match) = p =>
                      /\ users'[p].rating = users[p].rating + 20
                      /\ users'[p].wins = users[p].wins + 1
                      /\ users'[p].losses = users[p].losses
                /\ ScoreOutcome(match) \notin {0, p} =>
                      /\ users'[p].rating =
                            IF users[p].rating > 15 THEN users[p].rating - 15 ELSE 0
                      /\ users'[p].losses = users[p].losses + 1
                      /\ users'[p].wins = users[p].wins]_vars

\* a finalised match whose loser was floored at rating 0
C11_LoserFloored ==
    /\ match.status = "completed"
    /\ Len(history) = 2
    /\ match.winner = 1
    /\ users[1].wins = 1
    /\ users[2].losses = 1
    /\ users[2].rating = 0

\* C12: every user row has level = floor(rating / 200) + 1
C12_LevelFromRating ==
    \A p \in Players : users[p].level = (users[p].rating \div 200) + 1

\* C13: the rating_change of a MatchHistory row is the user's rating after
\* the finalisation minus the rating before it
C13_RatingChangeIsDelta ==
    [][finalise =>
          \A i \in 1 .. 2 :
              LET row == history'[Len(history) + i]
              IN row.rating_change = users'[row.user].rating - users[row.user].rating]_vars

\* C20: a finalisation that fails in one of its writes leaves the match
\* in_progress and none of its writes visible
C20_FinaliseAllOrNothing ==
    [][\A k \in 1 .. FinalWrites :
          finalise_fails(k) => UNCHANGED <<match, users, history>>]_vars


\* ------------------------------------------------------------ matchmaking
\* MatchmakingConsumer: waiting_players is a dict, kept here as the sequence
\* of its items in insertion order

\* list(waiting_players.items())[0]
FirstWaiting(w) == w[1]

\* the pairing keeps the head in the queue
Dequeue_keep(w, user) == w

\* del waiting_players[user]
Dequeue(w, user) == SelectSeq(w, LAMBDA e : e.user # user)

\* a cancel that leaves the queue as it is
RemoveWaiting_keep(w, user) == w

\* if user in waiting_players: del waiting_players[user]
RemoveWaiting(w, user) == SelectSeq(w, LAMBDA e : e.user # user)

\* every connection that waits gets an entry of its own
PutWaiting_append(w, user, channel) == Append(w, [user |-> user, ch |-> channel])

\* waiting_players[user] = channel: a key in the dict keeps its place
PutWaiting(w, user, channel) ==
    IF \E i \in DOMAIN w : w[i].user = user
    THEN [i \in DOMAIN w |-> IF w[i].user = user
                             THEN [user |-> user, ch |-> channel] ELSE w[i]]
    ELSE Append(w, [user |-> user, ch |-> channel])

\* any waiter is taken as the opponent
CanPair_any(opponent_id, user_id) == TRUE

\* if opponent_id != self.user.id
CanPair(opponent_id, user_id) == opponent_id # user_id

\* the caller entered as player1
NewMatchRow_swapped(opponent_id, user_id, nq) ==
    [player1 |-> user_id, player2 |-> opponent_id, status |-> "in_progress",
     rounds |-> IF nq < TotalRounds THEN nq ELSE TotalRounds]

\* create_match: the Match row with the number of Round rows it gets,
\* one per question of questions[:total_rounds]
NewMatchRow(opponent_id, user_id, nq) ==
    [player1 |-> opponent_id, player2 |-> user_id, status |-> "in_progress",
     rounds |-> IF nq < TotalRounds THEN nq ELSE TotalRounds]

\* connect up to the await of set_user_online (lines 16-24)
mm_connect(c) ==
    /\ mm[c].pc = "new"
    /\ \A d \in MmConns : (d < c /\ MmOwner(d) = MmOwner(c)) => mm[d].pc # "new"
    /\ mm' = [mm EXCEPT ![c].pc = "online"]
    /\ UNCHANGED <<waiting_players, matches, in_game, questions, engineVars, scoreVars, lobbyVars>>

\* connect, lines 26-33 and 57-63: the head of the queue is taken as the
\* opponent, or the caller is put into the queue and told matchmaking_start
mm_enqueue(c) ==
    /\ mm[c].pc = "online"
    /\ IF waiting_players # <<>> /\ CanPair(FirstWaiting(waiting_players).user, MmOwner(c))
       THEN LET head == FirstWaiting(waiting_players)
            IN /\ waiting_players' = Dequeue(waiting_players, head.user)
               /\ mm' = [mm EXCEPT ![c].pc = "creating", ![c].opp = head.user,
                                   ![c].oppch = head.ch]
       ELSE /\ waiting_players' = PutWaiting(waiting_players, MmOwner(c), c)
            /\ mm' = [mm EXCEPT ![c].pc = "open",
                                ![c].got = @ \cup {"matchmaking_start"}]
    /\ UNCHANGED <<matches, in_game, questions, engineVars, scoreVars, lobbyVars>>

\* create_match
mm_create_match(c) ==
    /\ mm[c].pc = "creating"
    /\ matches' = Append(matches, NewMatchRow(mm[c].opp, MmOwner(c), questions))
    /\ in_game' = in_game \cup {mm[c].opp, MmOwner(c)}
    /\ mm' = [mm EXCEPT ![c].pc = "notify"]
    /\ UNCHANGED <<waiting_players, questions, engineVars, scoreVars, lobbyVars>>

\* connect, lines 38-55: match_found to the opponent's channel and to the
\* caller; a channel whose consumer is gone takes no message
mm_notify(c) ==
    /\ mm[c].pc = "notify"
    /\ mm' = [d \in MmConns |->
                IF d = c
                THEN [mm[d] EXCEPT !.pc = "open", !.got = @ \cup {"match_found"}]
                ELSE IF d = mm[c].oppch /\ mm[d].pc # "closed"
                THEN [mm[d] EXCEPT !.inbox = @ + 1]
                ELSE mm[d]]
    /\ UNCHANGED <<waiting_players, matches, in_game, questions, engineVars, scoreVars, lobbyVars>>

\* the match_found handler of the waiting consumer
mm_match_found(c) ==
    /\ mm[c].pc = "open"
    /\ mm[c].inbox > 0
    /\ mm' = [mm EXCEPT ![c].inbox = @ - 1, ![c].got = @ \cup {"match_found"}]
    /\ UNCHANGED <<waiting_players, matches, in_game, questions, engineVars, scoreVars, lobbyVars>>

\* the cancel frames received over the connections 1 .. n
RECURSIVE CancelsSent(_)
CancelsSent(n) == IF n = 0 THEN 0 ELSE mm[n].cancels + CancelsSent(n - 1)

\* receive {action: "cancel"}
mm_cancel(c) ==
    /\ mm[c].pc = "open"
    /\ CancelsSent(NMmConns) < MaxCancels
    /\ waiting_players' = RemoveWaiting(waiting_players, MmOwner(c))
    /\ mm' = [mm EXCEPT ![c].cancels = @ + 1,
                        ![c].got = @ \cup {"matchmaking_cancelled"}]
    /\ UNCHANGED <<matches, in_game, questions, engineVars, scoreVars, lobbyVars>>

\* MatchmakingConsumer.disconnect
mm_disconnect(c) ==
    /\ mm[c].pc = "open"
    /\ Cardinality({d \in MmConns : mm[d].pc = "closed"}) < MaxMmDisc
    /\ waiting_players' = RemoveWaiting(waiting_players, MmOwner(c))
    /\ mm' = [mm EXCEPT ![c].pc = "closed", ![c].inbox = 0]
    /\ UNCHANGED <<matches, in_game, questions, engineVars, scoreVars, lobbyVars>>

MmInit ==
    /\ EngineInit
    /\ MmIdle
    /\ LobbyIdle
    /\ questions \in 0 .. MaxQuestions
    /\ sc_in = [answer |-> Null, time |-> DefaultTime, correct_answer |-> "A"]
    /\ sc_out = NoScore

MmNext ==
    \/ \E c \in MmConns : mm_connect(c)
    \/ \E c \in MmConns : mm_enqueue(c)
    \/ \E c \in MmConns : mm_create_match(c)
    \/ \E c \in MmConns : mm_notify(c)
    \/ \E c \in MmConns : mm_match_found(c)
    \/ \E c \in MmConns : mm_cancel(c)
    \/ \E c \in MmConns : mm_disconnect(c)

MmSpec == MmInit /\ [][MmNext]_vars


\* the users in the queue
WaitingUsers == {waiting_players[i].user : i \in DOMAIN waiting_players}

\* C14: a caller that is paired is paired with the head of the queue, which
\* leaves the queue; the match created has the dequeued waiter as player1 and
\* the caller as player2
C14_PairedWithHead ==
    [][\A c \in MmConns :
          /\ (mm[c].pc = "online" /\ mm'[c].pc = "creating") =>
                /\ waiting_players # <<>>
                /\ mm'[c].opp = waiting_players[1].user
                /\ mm'[c].oppch = waiting_players[1].ch
                /\ waiting_players' = Tail(waiting_players)
          /\ (mm[c].pc = "creating" /\ mm'[c].pc = "notify") =>
                /\ Len(matches') = Len(matches) + 1
                /\ matches'[Len(matches')].player1 = mm[c].opp
                /\ matches'[Len(matches')].player2 = MmOwner(c)]_vars

\* user 1 waited, user 2 connected and was matched with user 1 as player1
C14_HeadBecamePlayer1 ==
    /\ Len(matches) = 1
    /\ matches[1].player1 = 1
    /\ matches[1].player2 = 2
    /\ mm[2].pc = "open"
    /\ "matchmaking_start" \in mm[1].got
    /\ "match_found" \in mm[1].got
    /\ "match_found" \in mm[2].got

\* only the connections of users 1 and 2 have been opened, their connect
\* handlers and the match_found handler have run, nobody cancelled or left
TwoConnected ==
    /\ \A c \in MmConns : c > 2 => mm[c].pc = "new"
    /\ \A c \in {1, 2} : mm[c].pc = "open" /\ mm[c].cancels = 0 /\ mm[c].inbox = 0

\* C15: two players connect on an empty queue: when both connect handlers
\* are done, one match holds both, both were sent match_found and the queue
\* is empty
C15_ConcurrentConnectsPair ==
    TwoConnected =>
        /\ Len(matches) = 1
        /\ {matches[1].player1, matches[1].player2} = {1, 2}
        /\ \A c \in {1, 2} : "match_found" \in mm[c].got
        /\ waiting_players = <<>>

\* the two connects done, user 2 the one that waited
C15_BothConnected ==
    /\ TwoConnected
    /\ Len(matches) = 1
    /\ matches[1].player1 = 2
    /\ "matchmaking_start" \in mm[2].got

\* C16: no user is a player of two matches that are in_progress
C16_OneLiveMatchPerPlayer ==
    \A i \in DOMAIN matches, j \in DOMAIN matches :
        (i # j /\ matches[i].status = "in_progress" /\ matches[j].status = "in_progress")
            => {matches[i].player1, matches[i].player2} \cap
               {matches[j].player1, matches[j].player2} = {}

\* C17: every match has two different players
C17_DistinctPlayers ==
    \A i \in DOMAIN matches : matches[i].player1 # matches[i].player2

\* user 1 opened a second connection while waiting: it took over the queue
\* entry and no match was made
C17_SecondConnectionWaits ==
    /\ waiting_players = <<[user |-> 1, ch |-> NMmUsers + 1]>>
    /\ mm[1].pc = "open"
    /\ mm[1].cancels = 0
    /\ "matchmaking_start" \in mm[1].got
    /\ "matchmaking_start" \in mm[NMmUsers + 1].got
    /\ matches = <<>>

\* C18: a cancel takes the caller out of the queue and changes nothing else
\* of it, so a cancel of a player who is not in the queue leaves the queue as
\* it is; a player connecting to a queue without the cancelled player is not
\* paired with them, and on an empty queue is queued and told
\* matchmaking_start
C18_CancelLeavesQueue ==
    [][\A c \in MmConns :
          /\ mm'[c].cancels = mm[c].cancels + 1 =>
                /\ MmOwner(c) \notin {waiting_players'[i].user : i \in DOMAIN waiting_players'}
                /\ waiting_players' =
                      SelectSeq(waiting_players, LAMBDA e : e.user # MmOwner(c))
                /\ MmOwner(c) \notin WaitingUsers => waiting_players' = waiting_players
                /\ "matchmaking_cancelled" \in mm'[c].got
                /\ matches' = matches
          /\ (mm[c].pc = "online" /\ mm'[c].pc # "online") =>
                /\ mm'[c].pc = "creating" => mm'[c].opp \in WaitingUsers
                /\ waiting_players = <<>> =>
                      /\ mm'[c].pc = "open"
                      /\ "matchmaking_start" \in mm'[c].got
                      /\ waiting_players' = <<[user |-> MmOwner(c), ch |-> c]>>
                      /\ matches' = matches]_vars

\* user 1 waited and cancelled twice, user 2 connected after the cancel and
\* waits
C18_CancelledThenNextWaits ==
    /\ mm[1].cancels = 2
    /\ mm[1].pc = "open"
    /\ "matchmaking_start" \in mm[1].got
    /\ "matchmaking_cancelled" \in mm[1].got
    /\ "matchmaking_start" \in mm[2].got
    /\ waiting_players = <<[user |-> 2, ch |-> 2]>>
    /\ matches = <<>>
    /\ \A c \in MmConns : c > 2 => mm[c].pc = "new"

\* C19: with fewer questions than the match has rounds the pairing fails as a
\* whole: no Match row stays, no user is left in game and nobody is told
\* match_found
C19_PairingAllOrNothing ==
    questions < TotalRounds =>
        /\ matches = <<>>
        /\ in_game = {}
        /\ \A c \in MmConns : "match_found" \notin mm[c].got


\* ------------------------------------------- properties of the engine, 2
\* the coroutines that are inside start_round or end_round
Writers ==
    Cardinality({c \in Conns : task[c].pc \in {"sr_q", "er_calc", "er_sleep", "em_fin"}})
      + BagCardinality([t \in {x \in Timers : x.pc # "tm_sleep"} |-> CopiesIn(t, timers)])

\* C27: no round is scored and announced with round_end more than once
C27_RoundEndedOnce ==
    \A n \in 1 .. TotalRounds : nEnded[n] <= 1

\* C28: an answer is stored for round n only after question_start of round n
\* was sent; none is stored in the lobby
C28_NoAnswerBeforeQuestion ==
    \A i \in DOMAIN heap : \A n \in DOMAIN heap[i].round_answers :
        heap[i].round_answers[n] # <<>> => n \in Range(qlog)

\* C29: once the first round has been started, neither a ready frame nor a
\* game_start (sent again when a player joins) changes the current round
C29_FirstRoundOnce ==
    [][\A c \in Conns :
          (game_states # 0 /\ heap[game_states].current_round >= 1
             /\ (handle_ready(c) \/ game_start(c)))
          => heap' = heap]_vars

\* C30: at most one coroutine of the match is inside start_round or end_round
C30_SingleWriter ==
    Writers <= 1

\* C23: when one player's consumer has closed in a started match and the
\* other player stays, the match gets completed
C23_MatchSurvivesDisconnect ==
    \A c \in Conns, d \in Conns :
        (conn[c].st = "closed" /\ conn[d].st = "open" /\ qlog # <<>>)
            ~> (match.status = "completed" \/ conn[d].st # "open")

\* C24: when both players' consumers have closed and the match is not
\* completed, it gets finalised: status completed, is_in_game cleared
C24_AbandonedMatchFinalised ==
    ((\A c \in Conns : conn[c].st = "closed") /\ match.status # "completed")
        ~> (match.status = "completed" /\ \A p \in Players : ~users[p].is_in_game)

\* C25: question_start carries the question without its correct option and
\* explanation, and answer_submitted carries the user id only
C25_NoAnswerLeak ==
    /\ last.type = "question_start" =>
          /\ DOMAIN last = {"type", "round", "question"}
          /\ DOMAIN last.question = {"id", "text", "options", "category"}
          /\ \A f \in {"text", "category"} :
                last.question[f] # CorrectOption(last.round)
    /\ last.type = "answer_submitted" => DOMAIN last = {"type", "user_id"}

\* an answer was announced in a round that is not yet ended
C25_AnswerAnnounced ==
    /\ last.type = "answer_submitted"
    /\ qlog # <<>>
    /\ game_states # 0
    /\ CurAnswers # <<>>
    /\ heap[game_states].current_round \in 1 .. TotalRounds
    /\ nEnded[heap[game_states].current_round] = 0

\* ------------------------------------------------------------------ emojis
\* the sessions of the two players and their emoji frames, before the first
\* round: joins, closes, new sessions, emoji frames and their delivery
EmojiNext ==
    \/ \E c \in Conns : connect(c)
    \/ \E c \in Conns : connect_start(c)
    \/ \E c \in Conns : disconnect(c)
    \/ \E c \in Conns : reopen(c)
    \/ \E c \in Conns : handle_emoji(c)
    \/ \E c \in Conns : emoji_received(c)

EmojiSpec == Init /\ [][EmojiNext]_vars

\* C21: a player is sent at most five emoji_received frames of the other
\* player over the whole match, whatever joins and disconnects occur.
C21_EmojiLimitPerMatch ==
    \A p \in Players, q \in Players : emoji_shown[p][q] <= EmojiLimit

\* C22: no emoji_received frame is sent to a session of the user who sent the
\* emoji.
C22_NoEmojiEcho ==
    \A p \in Players : emoji_shown[p][p] = 0

\* the sender's own consumer has handled the event of an emoji whose frame
\* the opponent was sent
C22_EmojiDelivered ==
    \E c \in Conns :
        /\ conn[c].st = "open"
        /\ game_states # 0
        /\ EmojisSentBy(heap[game_states], Owner(c)) >= 1
        /\ emoji_box[c] = <<>>
        /\ \E p \in Players \ {Owner(c)} : emoji_shown[p][Owner(c)] >= 1

\* ------------------------------------------- connections that are turned away
\* verify_player, with every authenticated user taken for a player
verify_player_any(user) == TRUE

\* verify_player: the user is player1 or player2 of the match
verify_player(user) == user \in Players

\* GameConsumer.connect of user u, who is outside the match: closed at line 157
\* or 162; past the two checks it would join as a player does
connect_other(u) ==
    /\ other[u] = "new"
    /\ IF u = Anonymous \/ ~verify_player(u)
       THEN /\ other' = [other EXCEPT ![u] = "closed"]
            /\ UNCHANGED <<game_states, heap>>
       ELSE LET id == IF game_states = 0 THEN Len(heap) + 1 ELSE game_states
                h1 == IF game_states = 0 THEN Append(heap, NewState) ELSE heap
            IN /\ other' = [other EXCEPT ![u] = "open"]
               /\ game_states' = id
               /\ heap' = [h1 EXCEPT ![id].players_ready = @ \cup {u}]
    /\ UNCHANGED <<conn, task, timers, db, sent, env, nEnded, scoreVars, mmVars,
                   emojiVars, mm_anon>>

\* GameConsumer.disconnect of the connection of u that connect has closed
disconnect_other(u) ==
    /\ other[u] = "closed"
    /\ other' = [other EXCEPT ![u] = "gone"]
    /\ IF game_states # 0
       THEN LET left == heap[game_states].players_ready \ {u}
            IN /\ heap' = [heap EXCEPT ![game_states].players_ready = left]
               /\ game_states' = IF left = {} THEN 0 ELSE game_states
       ELSE UNCHANGED <<heap, game_states>>
    /\ UNCHANGED <<conn, task, timers, db, sent, env, nEnded, scoreVars, mmVars,
                   emojiVars, mm_anon>>

\* MatchmakingConsumer.connect of an anonymous user (lines 16-21)
mm_connect_anonymous ==
    /\ mm_anon = "new"
    /\ mm_anon' = "closed"
    /\ UNCHANGED <<engineVars, scoreVars, mmVars, emojiVars, other>>

\* the queue after MatchmakingConsumer.disconnect of a connection of user
\* (lines 66-69)
QueueAfterDisconnect(w, user) ==
    IF user # Anonymous THEN RemoveWaiting(w, user) ELSE w

\* MatchmakingConsumer.disconnect of the closed connection of the anonymous
\* user
mm_disconnect_anonymous ==
    /\ mm_anon = "closed"
    /\ mm_anon' = "gone"
    /\ waiting_players' = QueueAfterDisconnect(waiting_players, Anonymous)
    /\ UNCHANGED <<mm, matches, in_game, questions, engineVars, scoreVars, emojiVars,
                   other>>

\* the matchmaking connections of one user: they wait and never pair
SameUserConns == {c \in MmConns : MmOwner(c) = 1}

\* the sessions of the two players before the first round, the matchmaking
\* connections of one user, and the connections that are turned away
RejectNext ==
    \/ \E c \in Conns : connect(c)
    \/ \E c \in Conns : connect_start(c)
    \/ \E c \in Conns : disconnect(c)
    \/ \E c \in Conns : reopen(c)
    \/ \E c \in SameUserConns : mm_connect(c)
    \/ \E c \in SameUserConns : mm_enqueue(c)
    \/ \E c \in SameUserConns : mm_cancel(c)
    \/ \E c \in SameUserConns : mm_disconnect(c)
    \/ \E u \in Outsiders : connect_other(u)
    \/ \E u \in Outsiders : disconnect_other(u)
    \/ mm_connect_anonymous
    \/ mm_disconnect_anonymous

RejectSpec == Init /\ [][RejectNext]_vars

\* a step of a connection that is turned away: its connect or its disconnect
RejectedStep ==
    \/ \E u \in Outsiders : connect_other(u) \/ disconnect_other(u)
    \/ mm_connect_anonymous
    \/ mm_disconnect_anonymous

\* C26: the connection of an anonymous user, and the game connection of a
\* user who is neither player of the match, is closed and changes nothing:
\* the waiting queue, the in-memory state of the match and the persistent
\* rows stay as they are, also when that connection disconnects afterwards.
C26_RejectedChangesNothing ==
    [][RejectedStep =>
          /\ UNCHANGED <<waiting_players, game_states, heap, db, matches, in_game>>
          /\ \A u \in Outsiders : other'[u] \in {"new", "closed", "gone"}
          /\ mm_anon' \in {"new", "closed", "gone"}]_vars

\* a stranger's connection has been closed and its disconnect is still to
\* run, the anonymous connections have come and gone, one player is in the
\* room and one user waits in the queue
C26_StrangerClosedInLobby ==
    /\ other[Stranger] = "closed"
    /\ other[Anonymous] = "gone"
    /\ mm_anon = "gone"
    /\ game_states # 0
    /\ Cardinality(heap[game_states].players_ready) = 1
    /\ waiting_players # <<>>

\* ------------------------------------------- the latency of an answer
\* an answer frame of player1 arrives elapsed seconds after start_round has
\* set state['round_start_time'] (line 308): every option, every reported
\* latency up to MaxTime, every elapsed time up to MaxElapsed
LatencyInit ==
    /\ EngineInit
    /\ MmIdle
    /\ LobbyIdle
    /\ questions = MaxQuestions
    /\ sc_in \in [answer : Options, time : 0 .. MaxTime, elapsed : 0 .. MaxElapsed,
                  correct_answer : Options]
    /\ sc_out = NoScore

\* handle_answer stores the entry (lines 236-259) and calculate_round_result
\* scores it and saves its latency in the Round row (lines 489-498)
answer_latency ==
    /\ ~sc_out.done
    /\ LET st == [NewState EXCEPT !.current_round = 1]
           r  == StoreAnswer(st, 1, sc_in.answer, sc_in.time)
           p1 == PlayerResult(AnswerOf(r.ra[1], 1), sc_in.correct_answer)
       IN sc_out' = [done |-> TRUE, score |-> p1.score, correct |-> p1.correct,
                     time |-> p1.time]
    /\ UNCHANGED <<sc_in, engineVars, mmVars, lobbyVars>>

LatencySpec == LatencyInit /\ [][answer_latency]_vars

\* C31: the latency an accepted answer is scored with and that is saved in
\* the round is never lower than the time elapsed since the round started.
C31_LatencyAtLeastElapsed ==
    sc_out.done => sc_out.time >= sc_in.elapsed

\* ------------------------------------------- properties of the engine, 3
\* C32: a player is sent answer_submitted for the own answer in round n before
\* round_end of round n: when answer_submitted goes to the room for an answer
\* stored under round n, no round_end of round n has gone to the room.
C32_AnswerSeenBeforeRoundEnd ==
    [][\A c \in Conns, a \in AnswerChoices, t \in TimeChoices :
          (/\ handle_answer(c, a, t)
           /\ task'[c].pc = "ha_sent"
           /\ task'[c].cur \in 1 .. TotalRounds)
          => nEnded[task'[c].cur] = 0]_vars

\* ------------------------------------------- properties of the matchmaking, 2
\* C33: when the head waiter opens a second matchmaking connection, the entry
\* of the user is replaced by the newer connection, and the user stays in the
\* queue when a connection of the user other than the one in the entry closes.
C33_NewerConnectionKeepsPlace ==
    [][\A c \in MmConns :
          /\ (/\ mm_enqueue(c)
              /\ waiting_players # <<>>
              /\ FirstWaiting(waiting_players).user = MmOwner(c))
             => /\ Len(waiting_players') = Len(waiting_players)
                /\ FirstWaiting(waiting_players') = [user |-> MmOwner(c), ch |-> c]
          /\ (/\ mm_disconnect(c)
              /\ \E i \in DOMAIN waiting_players :
                    waiting_players[i].user = MmOwner(c) /\ waiting_players[i].ch # c)
             => MmOwner(c) \in WaitingUsers']_vars

\* C34: a waiter who has been taken from the queue for a pairing can no longer
\* cancel or disconnect: a session that has been sent matchmaking_cancelled is
\* not sent match_found afterwards, and no match is created with a waiter
\* whose matchmaking session has closed.
C34_PairingAtomicForWaiter ==
    [][\A c \in MmConns :
          /\ mm_match_found(c) => "matchmaking_cancelled" \notin mm[c].got
          /\ mm_create_match(c) => mm[mm[c].oppch].pc # "closed"]_vars

\* C35: every match created by a pairing has exactly total_rounds Round rows,
\* numbered 1 .. total_rounds (create_match numbers the rows it inserts from 1
\* without gaps), so that every round the engine starts has a question.
C35_AllRoundsCreated ==
    \A i \in DOMAIN matches : matches[i].rounds = TotalRounds

\* ------------------------------------------- properties of the engine, 4
\* C36: the MatchHistory rows of a completed match are symmetric: the row of
\* each player holds the final scores of the match seen from that player, the
\* rows of the two players hold each other's pair swapped, one of them is the
\* winner's when the scores differ, and on a draw neither is and the rating
\* change is 0.
C36_HistorySymmetric ==
    match.status = "completed" =>
        \A i \in DOMAIN history :
            LET r == history[i]
            IN /\ r.user_score = (IF r.user = 1 THEN match.score1 ELSE match.score2)
               /\ r.opponent_score = (IF r.user = 1 THEN match.score2 ELSE match.score1)
               /\ (r.user_score = r.opponent_score)
                     => (~r.is_winner /\ r.rating_change = 0)
               /\ \A j \in DOMAIN history :
                     history[j].user # r.user =>
                        /\ history[j].user_score = r.opponent_score
                        /\ history[j].opponent_score = r.user_score
                        /\ (r.user_score # r.opponent_score)
                              => (history[j].is_winner # r.is_winner)

\* C37: the waiting queue holds at most one player in every reachable state:
\* a connect that finds the queue empty or headed by its own user leaves
\* exactly that user in it, and a connect of any other user takes the head
\* out in the step in which it sees it.
C37_QueueAtMostOne ==
    [][/\ Len(waiting_players) <= 1
       /\ Len(waiting_players') <= 1
       /\ \A c \in MmConns :
             mm_enqueue(c) =>
                IF waiting_players = <<>>
                      \/ FirstWaiting(waiting_players).user = MmOwner(c)
                THEN waiting_players' = <<[user |-> MmOwner(c), ch |-> c]>>
                ELSE waiting_players' = <<>>]_vars

\* two connections of one user are open and have been told matchmaking_start,
\* and the queue holds the one entry of that user, with the channel of the
\* later connection
C37_SameUserTwice ==
    \E c \in MmConns, d \in MmConns :
        /\ c < d
        /\ MmOwner(c) = MmOwner(d)
        /\ mm[c].pc = "open" /\ "matchmaking_start" \in mm[c].got
        /\ mm[d].pc = "open" /\ "matchmaking_start" \in mm[d].got
        /\ waiting_players = <<[user |-> MmOwner(d), ch |-> d]>>

\* ------------------------------------------- pairing and finalisation
\* finalize_match of the i-th match created, lines 563-573: the Match is
\* completed and is_in_game is cleared for its two players; a match is played
\* to its end only if it has a Round row for each of its rounds
mm_finalize(i) ==
    /\ matches[i].status = "in_progress"
    /\ matches[i].rounds = TotalRounds
    /\ matches' = [matches EXCEPT ![i].status = "completed"]
    /\ in_game' = in_game \ {matches[i].player1, matches[i].player2}
    /\ UNCHANGED <<waiting_players, mm, questions, engineVars, scoreVars, lobbyVars>>

LifeNext ==
    \/ MmNext
    \/ \E i \in DOMAIN matches : mm_finalize(i)

\* the matchmaking with the matches it creates played to their end
LifeSpec == MmInit /\ [][LifeNext]_vars

\* the users who are a player of a match that is in_progress
PlayingUsers ==
    {u \in MmUsers : \E i \in DOMAIN matches :
                        /\ matches[i].status = "in_progress"
                        /\ u \in {matches[i].player1, matches[i].player2}}

\* C38: is_in_game of a user is true exactly while the user is a player of a
\* match that is in_progress.
C38_InGameWhilePlaying ==
    \A u \in MmUsers : u \in in_game <=> u \in PlayingUsers

====
